---- MODULE Spec2Model ----
(***************************************************************************)
(* Model of spacefx.security.validation (allow-list input validation).     *)
(*                                                                         *)
(* A text is a sequence of characters; a character is a one-token string   *)
(* ("a", "/", ...) and the characters that have no printable form are the  *)
(* tokens NUL, TAB, LF, CR, VT, FF, CTRL, BACKTICK, NBSP, EACUTE, SNOWMAN  *)
(* and REPL.  An argument is a record [type, val]: type is the Python type *)
(* name, val the text.                                                     *)
(* The platform is POSIX: os.sep is "/" and os.altsep is None.             *)
(***************************************************************************)
EXTENDS Integers, Sequences, FiniteSets, TLC

(***************************************************************************)
(* Bounds of the explored inputs.                                          *)
(***************************************************************************)
MaxLen == 3
MaxToks == 3
NumThreads == 2

(***************************************************************************)
(* Characters and character classes.                                       *)
(***************************************************************************)
LowerSeq == <<"a","b","c","d","e","f","g","h","i","j","k","l","m",
              "n","o","p","q","r","s","t","u","v","w","x","y","z">>
UpperSeq == <<"A","B","C","D","E","F","G","H","I","J","K","L","M",
              "N","O","P","Q","R","S","T","U","V","W","X","Y","Z">>
DigitSeq == <<"0","1","2","3","4","5","6","7","8","9">>

Range(f) == {f[i] : i \in DOMAIN f}

Lower == Range(LowerSeq)
Upper == Range(UpperSeq)
Digit == Range(DigitSeq)

\* str.isspace(): the characters Python classifies as whitespace.
Whitespace == {" ", "TAB", "LF", "CR", "VT", "FF", "NBSP"}

\* str.isalnum(): letters and digits of any script.
UnicodeAlnum == Lower \cup Upper \cup Digit \cup {"EACUTE"}

\* str.lower() / str.upper() on one character.
LowerChar(c) == IF c \in Upper
                THEN LowerSeq[CHOOSE i \in 1..26 : UpperSeq[i] = c]
                ELSE c
UpperChar(c) == IF c \in Lower
                THEN UpperSeq[CHOOSE i \in 1..26 : LowerSeq[i] = c]
                ELSE c
str_lower(s) == [i \in 1..Len(s) |-> LowerChar(s[i])]
str_upper(s) == [i \in 1..Len(s) |-> UpperChar(s[i])]

\* str.isspace(): non-empty and every character is whitespace.
str_isspace(s) == Len(s) > 0 /\ \A i \in 1..Len(s) : s[i] \in Whitespace

\* str.isalnum(): non-empty and every character is a letter or digit.
str_isalnum(s) == Len(s) > 0 /\ \A i \in 1..Len(s) : s[i] \in UnicodeAlnum

\* sub in s
Contains(s, sub) ==
    \E i \in 0..(Len(s) - Len(sub)) : \A j \in 1..Len(sub) : s[i + j] = sub[j]

\* s.startswith(p), s.endswith(p)
StartsWith(s, p) == Len(p) <= Len(s) /\ \A j \in 1..Len(p) : s[j] = p[j]
EndsWith(s, p) ==
    Len(p) <= Len(s) /\ \A j \in 1..Len(p) : s[Len(s) - Len(p) + j] = p[j]

Front(s) == SubSeq(s, 1, Len(s) - 1)
Rep(c, n) == [i \in 1..n |-> c]

(***************************************************************************)
(* Compiled patterns.  A pattern ^BODY$ used with .match() accepts s when  *)
(* BODY matches all of s, or all of s but one final line feed: Python's $  *)
(* also matches just before a newline that ends the string.                *)
(***************************************************************************)
DollarCuts(s) ==
    {s} \cup (IF Len(s) > 0 /\ s[Len(s)] = "LF" THEN {Front(s)} ELSE {})

AllIn(x, class) == \A i \in 1..Len(x) : x[i] \in class

DockerSeparators == {".", "_", "/", "-"}

\* [a-z0-9]+([._/-][a-z0-9]+)*
DockerImageNameBody(x) ==
    /\ Len(x) > 0
    /\ x[1] \in Lower \cup Digit
    /\ x[Len(x)] \in Lower \cup Digit
    /\ AllIn(x, Lower \cup Digit \cup DockerSeparators)
    /\ \A i \in 1..(Len(x) - 1) :
          ~(x[i] \in DockerSeparators /\ x[i + 1] \in DockerSeparators)

DOCKER_IMAGE_NAME_PATTERN(s) == \E x \in DollarCuts(s) : DockerImageNameBody(x)

\* ^[a-zA-Z0-9_.-]{1,128}$
DOCKER_TAG_PATTERN(s) ==
    \E x \in DollarCuts(s) :
        /\ Len(x) >= 1
        /\ Len(x) <= 128
        /\ AllIn(x, Lower \cup Upper \cup Digit \cup {"_", ".", "-"})

\* ^[a-zA-Z0-9_.-]+$
FILENAME_PATTERN(s) ==
    \E x \in DollarCuts(s) :
        Len(x) >= 1 /\ AllIn(x, Lower \cup Upper \cup Digit \cup {"_", ".", "-"})

\* ^[a-zA-Z0-9._-]+$
HELM_PARAMETER_PATTERN(s) ==
    \E x \in DollarCuts(s) :
        Len(x) >= 1 /\ AllIn(x, Lower \cup Upper \cup Digit \cup {".", "_", "-"})

\* ^[a-zA-Z0-9._:/-]+$
HELM_VALUE_PATTERN(s) ==
    \E x \in DollarCuts(s) :
        /\ Len(x) >= 1
        /\ AllIn(x, Lower \cup Upper \cup Digit \cup {".", "_", ":", "/", "-"})

\* [a-z0-9]([CLASS]*[a-z0-9])?
K8sBody(x, class) ==
    /\ Len(x) >= 1
    /\ x[1] \in Lower \cup Digit
    /\ x[Len(x)] \in Lower \cup Digit
    /\ AllIn(x, class)

\* the namespace pattern without its anchoring first and last characters:
\* ^[a-z0-9-]+$
K8S_NAMESPACE_PATTERN_unanchored(s) ==
    \E x \in DollarCuts(s) :
        Len(x) >= 1 /\ AllIn(x, Lower \cup Digit \cup {"-"})

\* ^[a-z0-9]([a-z0-9-]*[a-z0-9])?$
K8S_NAMESPACE_PATTERN(s) ==
    \E x \in DollarCuts(s) : K8sBody(x, Lower \cup Digit \cup {"-"})

\* ^[a-z0-9]([a-z0-9.-]*[a-z0-9])?$
K8S_RESOURCE_NAME_PATTERN(s) ==
    \E x \in DollarCuts(s) : K8sBody(x, Lower \cup Digit \cup {".", "-"})

\* ^[a-zA-Z_][a-zA-Z0-9_]*$
IDENTIFIER_PATTERN(s) ==
    \E x \in DollarCuts(s) :
        /\ Len(x) >= 1
        /\ x[1] \in Lower \cup Upper \cup {"_"}
        /\ AllIn(x, Lower \cup Upper \cup Digit \cup {"_"})

\* ^[a-zA-Z0-9-]+$
ALPHANUMERIC_DASH_PATTERN(s) ==
    \E x \in DollarCuts(s) :
        Len(x) >= 1 /\ AllIn(x, Lower \cup Upper \cup Digit \cup {"-"})

\* \.\.|/\.|\\\\.   used with .search(): ".." anywhere, "/." anywhere, or
\* two backslashes followed by any character but a line feed.
PATH_TRAVERSAL_PATTERN(s) ==
    \/ Contains(s, <<".", ".">>)
    \/ Contains(s, <<"/", ".">>)
    \/ \E i \in 1..(Len(s) - 2) :
          s[i] = "\\" /\ s[i + 1] = "\\" /\ s[i + 2] # "LF"

(***************************************************************************)
(* Dangerous sequences and length constraints.                             *)
(***************************************************************************)
PATH_TRAVERSAL_SEQUENCES ==
    << <<".", ".">>,
       <<"/", ".", ".">>,
       <<".", "\\", "\\">>,
       <<"\\", "\\", ".", ".">>,
       <<".", ".", "\\", "\\">>,
       <<".", ".", "/">>,
       <<"%", "2", "e", "%", "2", "e">>,
       <<"%", "2", "5", "2", "e", "%", "2", "5", "2", "e">>,
       <<".", ".", "%", "2", "f">>,
       <<".", ".", "%", "5", "c">> >>

NULL_BYTE_SEQUENCES ==
    << <<"\\", "0">>,
       <<"%", "0", "0">>,
       <<"\\", "u", "0", "0", "0", "0">> >>

WINDOWS_RESERVED_NAMES ==
    { <<"C","O","N">>, <<"P","R","N">>, <<"A","U","X">>, <<"N","U","L">> }
    \cup { <<"C","O","M", DigitSeq[d]>> : d \in 2..10 }
    \cup { <<"L","P","T", DigitSeq[d]>> : d \in 2..10 }

MAX_DOCKER_IMAGE_NAME_LENGTH == 255
MAX_DOCKER_TAG_LENGTH == 128
MAX_FILENAME_LENGTH == 255
MAX_FILEPATH_LENGTH == 4096
MAX_K8S_NAMESPACE_LENGTH == 63
MAX_K8S_RESOURCE_NAME_LENGTH == 253
MAX_HELM_PARAMETER_LENGTH == 255
MAX_HELM_VALUE_LENGTH == 1024
MAX_IDENTIFIER_LENGTH == 255

os_sep == "/"


(***************************************************************************)
(* urllib.parse.unquote: every %XX with two hexadecimal digits becomes the *)
(* character of that byte; any other % stays.  A byte above 127 decodes to *)
(* a non-ASCII character, modelled by the one token REPL.                  *)
(***************************************************************************)
AsciiPrintable ==
    <<" ", "!", "\"", "#", "$", "%", "&", "'", "(", ")", "*", "+", ",", "-",
      ".", "/", "0", "1", "2", "3", "4", "5", "6", "7", "8", "9", ":", ";",
      "<", "=", ">", "?", "@", "A", "B", "C", "D", "E", "F", "G", "H", "I",
      "J", "K", "L", "M", "N", "O", "P", "Q", "R", "S", "T", "U", "V", "W",
      "X", "Y", "Z", "[", "\\", "]", "^", "_", "BACKTICK", "a", "b", "c", "d", "e",
      "f", "g", "h", "i", "j", "k", "l", "m", "n", "o", "p", "q", "r", "s",
      "t", "u", "v", "w", "x", "y", "z", "{", "|", "}", "~">>

Chr(b) ==
    IF b \in 32..126 THEN AsciiPrintable[b - 31]
    ELSE IF b = 0 THEN "NUL"
    ELSE IF b = 9 THEN "TAB"
    ELSE IF b = 10 THEN "LF"
    ELSE IF b = 11 THEN "VT"
    ELSE IF b = 12 THEN "FF"
    ELSE IF b = 13 THEN "CR"
    ELSE IF b < 128 THEN "CTRL"
    ELSE "REPL"

HexDigits == Digit \cup {"a","b","c","d","e","f"} \cup {"A","B","C","D","E","F"}

HexVal(c) ==
    IF c \in Digit THEN (CHOOSE i \in 1..10 : DigitSeq[i] = c) - 1
    ELSE (CHOOSE i \in 1..6 : LowerSeq[i] = LowerChar(c)) + 9

RECURSIVE UnquoteFrom(_, _)
UnquoteFrom(s, i) ==
    IF i > Len(s) THEN <<>>
    ELSE IF /\ s[i] = "%"
            /\ i + 2 <= Len(s)
            /\ s[i + 1] \in HexDigits
            /\ s[i + 2] \in HexDigits
         THEN <<Chr(16 * HexVal(s[i + 1]) + HexVal(s[i + 2]))>>
                  \o UnquoteFrom(s, i + 3)
         ELSE <<s[i]>> \o UnquoteFrom(s, i + 1)

unquote(s) == IF "%" \notin Range(s) THEN s ELSE UnquoteFrom(s, 1)

(***************************************************************************)
(* posixpath: split, join, normpath, expanduser, abspath.  A call that can *)
(* fail returns [exc, val]: exc is "none" or the name of the exception.    *)
(***************************************************************************)
Ok(v) == [exc |-> "none", val |-> v]
Fail(e) == [exc |-> e, val |-> <<>>]

\* s.split("/")
RECURSIVE SplitSep(_)
SplitSep(s) ==
    IF os_sep \notin Range(s) THEN <<s>>
    ELSE LET k == CHOOSE k \in 1..Len(s) :
                     s[k] = os_sep /\ \A j \in 1..(k - 1) : s[j] # os_sep
         IN  <<SubSeq(s, 1, k - 1)>> \o SplitSep(SubSeq(s, k + 1, Len(s)))

\* "/".join(comps)
RECURSIVE JoinSep(_)
JoinSep(comps) ==
    IF Len(comps) = 0 THEN <<>>
    ELSE IF Len(comps) = 1 THEN comps[1]
    ELSE comps[1] \o <<os_sep>> \o JoinSep(Tail(comps))

\* the loop of normpath over the components, new_comps accumulated in acc
RECURSIVE NormComps(_, _, _)
NormComps(comps, initial_slashes, acc) ==
    IF Len(comps) = 0 THEN acc
    ELSE LET comp == comps[1]
             rest == Tail(comps)
         IN  IF comp = <<>> \/ comp = <<".">>
             THEN NormComps(rest, initial_slashes, acc)
             ELSE IF \/ comp # <<".", ".">>
                     \/ (initial_slashes = 0 /\ Len(acc) = 0)
                     \/ (Len(acc) > 0 /\ acc[Len(acc)] = <<".", ".">>)
                  THEN NormComps(rest, initial_slashes, Append(acc, comp))
                  ELSE IF Len(acc) > 0
                       THEN NormComps(rest, initial_slashes, Front(acc))
                       ELSE NormComps(rest, initial_slashes, acc)

normpath(path) ==
    IF Len(path) = 0 THEN <<".">>
    ELSE LET initial_slashes ==
                 IF ~StartsWith(path, <<os_sep>>) THEN 0
                 ELSE IF /\ StartsWith(path, <<os_sep, os_sep>>)
                         /\ ~StartsWith(path, <<os_sep, os_sep, os_sep>>)
                      THEN 2
                      ELSE 1
             comps == NormComps(SplitSep(path), initial_slashes, <<>>)
             joined == Rep(os_sep, initial_slashes) \o JoinSep(comps)
         IN  IF Len(joined) = 0 THEN <<".">> ELSE joined

\* posixpath.join(a, b)
join(a, b) ==
    IF StartsWith(b, <<os_sep>>) THEN b
    ELSE IF Len(a) = 0 \/ EndsWith(a, <<os_sep>>) THEN a \o b
    ELSE a \o <<os_sep>> \o b

\* The process environment: $HOME and the password database.
HOME == <<"/", "h">>
PwDir == [name \in {<<"b">>} |-> <<"/", "h", "/", "b">>]

\* s.rstrip("/")
RECURSIVE RStripSep(_)
RStripSep(s) ==
    IF Len(s) > 0 /\ s[Len(s)] = os_sep THEN RStripSep(Front(s)) ELSE s

\* posixpath.expanduser: getpwnam raises ValueError on an embedded NUL and
\* KeyError (caught: the path is returned unchanged) on an unknown user.
expanduser(path) ==
    IF ~StartsWith(path, <<"~">>) THEN Ok(path)
    ELSE LET seps == {k \in 2..Len(path) : path[k] = os_sep}
             i == IF seps = {} THEN Len(path) + 1
                  ELSE CHOOSE k \in seps : \A j \in seps : k <= j
             name == SubSeq(path, 2, i - 1)
             rest == SubSeq(path, i, Len(path))
             Expand(userhome) ==
                 LET r == RStripSep(userhome) \o rest
                 IN  Ok(IF Len(r) = 0 THEN <<os_sep>> ELSE r)
         IN  IF i = 2 THEN Expand(HOME)
             ELSE IF "NUL" \in Range(name) THEN Fail("ValueError")
             ELSE IF name \notin DOMAIN PwDir THEN Ok(path)
             ELSE Expand(PwDir[name])

\* posixpath.abspath: os.getcwd() raises OSError when the working directory
\* has been removed; c is the working directory, [ok, dir].
abspath(path, c) ==
    IF StartsWith(path, <<os_sep>>) THEN Ok(normpath(path))
    ELSE IF ~c.ok THEN Fail("OSError")
    ELSE Ok(normpath(join(c.dir, path)))


(***************************************************************************)
(* Outcomes.  A call returns a value or raises an error; stages lists the  *)
(* checks the call performed, in order, up to the one that decided it.     *)
(***************************************************************************)
Ret(v, st) ==
    [kind |-> "return", val |-> v, exc |-> "none", param |-> "none",
     argtype |-> "none", stages |-> st]
RaiseTypeError(p, a) ==
    [kind |-> "raise", val |-> FALSE, exc |-> "TypeError", param |-> p,
     argtype |-> a.type, stages |-> <<"type">>]

Raise(e, st) ==
    [kind |-> "raise", val |-> FALSE, exc |-> e, param |-> "none",
     argtype |-> "none", stages |-> st]

isinstance_str(a) == a.type = "str"
Str(s) == [type |-> "str", val |-> s]

(***************************************************************************)
(* Docker validation functions.                                            *)
(***************************************************************************)
\* validate_docker_image_name with the length bound off by one
validate_docker_image_name_exclusive(image_name) ==
    IF ~isinstance_str(image_name)
    THEN RaiseTypeError("image_name", image_name)
    ELSE LET s == image_name.val IN
         IF Len(s) = 0 \/ str_isspace(s)
         THEN Ret(FALSE, <<"type", "empty">>)
         ELSE IF Len(s) >= MAX_DOCKER_IMAGE_NAME_LENGTH
         THEN Ret(FALSE, <<"type", "empty", "length">>)
         ELSE Ret(DOCKER_IMAGE_NAME_PATTERN(s),
                  <<"type", "empty", "length", "pattern">>)

validate_docker_image_name(image_name) ==
    IF ~isinstance_str(image_name)
    THEN RaiseTypeError("image_name", image_name)
    ELSE LET s == image_name.val IN
         IF Len(s) = 0 \/ str_isspace(s)
         THEN Ret(FALSE, <<"type", "empty">>)
         ELSE IF Len(s) > MAX_DOCKER_IMAGE_NAME_LENGTH
         THEN Ret(FALSE, <<"type", "empty", "length">>)
         ELSE Ret(DOCKER_IMAGE_NAME_PATTERN(s),
                  <<"type", "empty", "length", "pattern">>)

validate_docker_tag(tag) ==
    IF ~isinstance_str(tag)
    THEN RaiseTypeError("tag", tag)
    ELSE LET s == tag.val IN
         IF Len(s) = 0 \/ str_isspace(s)
         THEN Ret(FALSE, <<"type", "empty">>)
         ELSE Ret(DOCKER_TAG_PATTERN(s), <<"type", "empty", "pattern">>)

(***************************************************************************)
(* Helm validation functions.                                              *)
(***************************************************************************)
validate_helm_parameter(parameter) ==
    IF ~isinstance_str(parameter)
    THEN RaiseTypeError("parameter", parameter)
    ELSE LET s == parameter.val IN
         IF Len(s) = 0 \/ str_isspace(s)
         THEN Ret(FALSE, <<"type", "empty">>)
         ELSE IF Len(s) > MAX_HELM_PARAMETER_LENGTH
         THEN Ret(FALSE, <<"type", "empty", "length">>)
         ELSE Ret(HELM_PARAMETER_PATTERN(s),
                  <<"type", "empty", "length", "pattern">>)

validate_helm_value(value) ==
    IF ~isinstance_str(value)
    THEN RaiseTypeError("value", value)
    ELSE LET s == value.val IN
         IF Len(s) = 0 \/ str_isspace(s)
         THEN Ret(FALSE, <<"type", "empty">>)
         ELSE IF Len(s) > MAX_HELM_VALUE_LENGTH
         THEN Ret(FALSE, <<"type", "empty", "length">>)
         ELSE Ret(HELM_VALUE_PATTERN(s),
                  <<"type", "empty", "length", "pattern">>)

(***************************************************************************)
(* Kubernetes validation functions.                                        *)
(***************************************************************************)
validate_kubernetes_namespace(namespace_name) ==
    IF ~isinstance_str(namespace_name)
    THEN RaiseTypeError("namespace_name", namespace_name)
    ELSE LET s == namespace_name.val IN
         IF Len(s) = 0 \/ str_isspace(s)
         THEN Ret(FALSE, <<"type", "empty">>)
         ELSE IF Len(s) > MAX_K8S_NAMESPACE_LENGTH
         THEN Ret(FALSE, <<"type", "empty", "length">>)
         ELSE Ret(K8S_NAMESPACE_PATTERN(s),
                  <<"type", "empty", "length", "pattern">>)

validate_kubernetes_resource_name(resource_name) ==
    IF ~isinstance_str(resource_name)
    THEN RaiseTypeError("resource_name", resource_name)
    ELSE LET s == resource_name.val IN
         IF Len(s) = 0 \/ str_isspace(s)
         THEN Ret(FALSE, <<"type", "empty">>)
         ELSE IF Len(s) > MAX_K8S_RESOURCE_NAME_LENGTH
         THEN Ret(FALSE, <<"type", "empty", "length">>)
         ELSE Ret(K8S_RESOURCE_NAME_PATTERN(s),
                  <<"type", "empty", "length", "pattern">>)

(***************************************************************************)
(* General validation functions.                                           *)
(***************************************************************************)
validate_identifier(identifier) ==
    IF ~isinstance_str(identifier)
    THEN RaiseTypeError("identifier", identifier)
    ELSE LET s == identifier.val IN
         IF Len(s) = 0 \/ str_isspace(s)
         THEN Ret(FALSE, <<"type", "empty">>)
         ELSE IF Len(s) > MAX_IDENTIFIER_LENGTH
         THEN Ret(FALSE, <<"type", "empty", "length">>)
         ELSE Ret(IDENTIFIER_PATTERN(s),
                  <<"type", "empty", "length", "pattern">>)

is_valid_identifier(input_str) == validate_identifier(input_str)

is_alphanumeric(input_str) ==
    IF ~isinstance_str(input_str)
    THEN RaiseTypeError("input_str", input_str)
    ELSE LET s == input_str.val IN
         IF Len(s) = 0 \/ str_isspace(s)
         THEN Ret(FALSE, <<"type", "empty">>)
         ELSE Ret(str_isalnum(s), <<"type", "empty", "pattern">>)

is_alphanumeric_with_dash(input_str) ==
    IF ~isinstance_str(input_str)
    THEN RaiseTypeError("input_str", input_str)
    ELSE LET s == input_str.val IN
         IF Len(s) = 0 \/ str_isspace(s)
         THEN Ret(FALSE, <<"type", "empty">>)
         ELSE Ret(ALPHANUMERIC_DASH_PATTERN(s), <<"type", "empty", "pattern">>)

\* ''.join(char for char in input_str if char in allowed_set)
RECURSIVE FilterChars(_, _)
FilterChars(s, allowed) ==
    IF Len(s) = 0 THEN <<>>
    ELSE (IF s[1] \in allowed THEN <<s[1]>> ELSE <<>>)
             \o FilterChars(Tail(s), allowed)

\* a filter that keeps only the first occurrence of each allowed character
RECURSIVE FilterCharsDistinct(_, _, _)
FilterCharsDistinct(s, allowed, seen) ==
    IF Len(s) = 0 THEN <<>>
    ELSE (IF s[1] \in allowed \ seen THEN <<s[1]>> ELSE <<>>)
             \o FilterCharsDistinct(Tail(s), allowed, seen \cup {s[1]})

\* a filter that removes only the first character that is not allowed
RECURSIVE FilterCharsFirst(_, _)
FilterCharsFirst(s, allowed) ==
    IF Len(s) = 0 THEN <<>>
    ELSE IF s[1] \in allowed THEN <<s[1]>> \o FilterCharsFirst(Tail(s), allowed)
    ELSE Tail(s)

\* sanitize_input that keeps each allowed character once
sanitize_input_distinct(input_str, allowed_chars) ==
    IF ~isinstance_str(input_str)
    THEN RaiseTypeError("input_str", input_str)
    ELSE IF ~isinstance_str(allowed_chars)
    THEN RaiseTypeError("allowed_chars", allowed_chars)
    ELSE Ret(FilterCharsDistinct(input_str.val, Range(allowed_chars.val), {}),
             <<"type", "filter">>)

\* sanitize_input that removes one offending character per call
sanitize_input_first(input_str, allowed_chars) ==
    IF ~isinstance_str(input_str)
    THEN RaiseTypeError("input_str", input_str)
    ELSE IF ~isinstance_str(allowed_chars)
    THEN RaiseTypeError("allowed_chars", allowed_chars)
    ELSE Ret(FilterCharsFirst(input_str.val, Range(allowed_chars.val)),
             <<"type", "filter">>)

sanitize_input(input_str, allowed_chars) ==
    IF ~isinstance_str(input_str)
    THEN RaiseTypeError("input_str", input_str)
    ELSE IF ~isinstance_str(allowed_chars)
    THEN RaiseTypeError("allowed_chars", allowed_chars)
    ELSE Ret(FilterChars(input_str.val, Range(allowed_chars.val)),
             <<"type", "filter">>)

(***************************************************************************)
(* Shell security functions.                                               *)
(***************************************************************************)
\* set('|&;<>()$`\\"\'\\n\\r\\t*?[]{}!#~'): the literal has the two-character
\* sequences backslash-n, backslash-r and backslash-t, so the set holds the
\* backslash and the letters n, r and t.
SHELL_METACHARACTERS ==
    {"|", "&", ";", "<", ">", "(", ")", "$", "BACKTICK", "\\", "\"", "'",
     "n", "r", "t", "*", "?", "[", "]", "{", "}", "!", "#", "~"}

contains_shell_metacharacters(input_str) ==
    IF ~isinstance_str(input_str)
    THEN RaiseTypeError("input_str", input_str)
    ELSE Ret(\E i \in 1..Len(input_str.val) :
                 input_str.val[i] \in SHELL_METACHARACTERS,
             <<"type", "scan">>)

\* Line 612, the return of the quoted text, is
\*     return f"'{argument.replace(\"'\", \"'\\\\''\")}'"
\* with backslash-escaped quotes inside the replacement field of the
\* f-string.  That is not a Python expression: the compiler rejects the
\* statement with SyntaxError (on 3.11 "f-string expression part cannot
\* include a backslash", on 3.12 and later "unexpected character after line
\* continuation character"), so the statement never yields a text.  The
\* error is confined here to the statement that has it; the other
\* statements of the module are modelled as written.
sanitize_shell_argument(argument) ==
    IF ~isinstance_str(argument)
    THEN RaiseTypeError("argument", argument)
    ELSE IF Len(argument.val) = 0
    THEN Ret(<<"'", "'">>, <<"type", "empty">>)
    ELSE Raise("SyntaxError", <<"type", "empty", "quote">>)


(***************************************************************************)
(* File path validation functions.                                         *)
(***************************************************************************)
\* contains_path_traversal that looks at the decoded path only
contains_path_traversal_decoded_only(path) ==
    IF ~isinstance_str(path)
    THEN RaiseTypeError("path", path)
    ELSE LET s == path.val
             decoded == unquote(s)
         IN  IF decoded # s /\ PATH_TRAVERSAL_PATTERN(decoded)
             THEN Ret(TRUE, <<"type", "decode">>)
             ELSE Ret(FALSE, <<"type", "decode">>)

\* contains_path_traversal that decodes a second time
contains_path_traversal_decode_twice(path) ==
    IF ~isinstance_str(path)
    THEN RaiseTypeError("path", path)
    ELSE LET s == path.val
             path_lower == str_lower(s)
             decoded == unquote(s)
             again == unquote(decoded)
         IN  IF PATH_TRAVERSAL_PATTERN(s)
             THEN Ret(TRUE, <<"type", "pattern">>)
             ELSE IF \E k \in DOMAIN PATH_TRAVERSAL_SEQUENCES :
                        Contains(path_lower, str_lower(PATH_TRAVERSAL_SEQUENCES[k]))
             THEN Ret(TRUE, <<"type", "pattern", "sequences">>)
             ELSE IF decoded # s /\ PATH_TRAVERSAL_PATTERN(decoded)
             THEN Ret(TRUE, <<"type", "pattern", "sequences", "decode">>)
             ELSE IF again # decoded /\ PATH_TRAVERSAL_PATTERN(again)
             THEN Ret(TRUE, <<"type", "pattern", "sequences", "decode">>)
             ELSE Ret(FALSE, <<"type", "pattern", "sequences", "decode">>)

contains_path_traversal(path) ==
    IF ~isinstance_str(path)
    THEN RaiseTypeError("path", path)
    ELSE LET s == path.val
             path_lower == str_lower(s)
             decoded == unquote(s)
         IN  IF PATH_TRAVERSAL_PATTERN(s)
             THEN Ret(TRUE, <<"type", "pattern">>)
             ELSE IF \E k \in DOMAIN PATH_TRAVERSAL_SEQUENCES :
                        Contains(path_lower, str_lower(PATH_TRAVERSAL_SEQUENCES[k]))
             THEN Ret(TRUE, <<"type", "pattern", "sequences">>)
             ELSE IF decoded # s /\ PATH_TRAVERSAL_PATTERN(decoded)
             THEN Ret(TRUE, <<"type", "pattern", "sequences", "decode">>)
             ELSE Ret(FALSE, <<"type", "pattern", "sequences", "decode">>)

\* is_within_directory without the trailing separator on the base
is_within_directory_no_sep(path, base_directory, c) ==
    IF ~isinstance_str(path)
    THEN RaiseTypeError("path", path)
    ELSE IF ~isinstance_str(base_directory)
    THEN RaiseTypeError("base_directory", base_directory)
    ELSE LET eu_path == expanduser(path.val)
             full_path == IF eu_path.exc # "none" THEN eu_path
                          ELSE abspath(eu_path.val, c)
             eu_base == expanduser(base_directory.val)
             abs_base == IF eu_base.exc # "none" THEN eu_base
                         ELSE abspath(eu_base.val, c)
         IN  IF full_path.exc \in {"ValueError", "OSError"}
             THEN Ret(FALSE, <<"type", "resolve">>)
             ELSE IF abs_base.exc \in {"ValueError", "OSError"}
             THEN Ret(FALSE, <<"type", "resolve">>)
             ELSE Ret(StartsWith(full_path.val, abs_base.val),
                      <<"type", "resolve", "prefix">>)

\* is_within_directory that also accepts the base directory itself
is_within_directory_or_equal(path, base_directory, c) ==
    IF ~isinstance_str(path)
    THEN RaiseTypeError("path", path)
    ELSE IF ~isinstance_str(base_directory)
    THEN RaiseTypeError("base_directory", base_directory)
    ELSE LET eu_path == expanduser(path.val)
             full_path == IF eu_path.exc # "none" THEN eu_path
                          ELSE abspath(eu_path.val, c)
             eu_base == expanduser(base_directory.val)
             abs_base == IF eu_base.exc # "none" THEN eu_base
                         ELSE abspath(eu_base.val, c)
             full_base == IF EndsWith(abs_base.val, <<os_sep>>)
                          THEN abs_base.val
                          ELSE abs_base.val \o <<os_sep>>
         IN  IF full_path.exc \in {"ValueError", "OSError"}
             THEN Ret(FALSE, <<"type", "resolve">>)
             ELSE IF abs_base.exc \in {"ValueError", "OSError"}
             THEN Ret(FALSE, <<"type", "resolve">>)
             ELSE Ret(\/ StartsWith(full_path.val, full_base)
                      \/ full_path.val = abs_base.val,
                      <<"type", "resolve", "prefix">>)

\* is_within_directory with "except ValueError" only
is_within_directory_value_error_only(path, base_directory, c) ==
    IF ~isinstance_str(path)
    THEN RaiseTypeError("path", path)
    ELSE IF ~isinstance_str(base_directory)
    THEN RaiseTypeError("base_directory", base_directory)
    ELSE LET eu_path == expanduser(path.val)
             full_path == IF eu_path.exc # "none" THEN eu_path
                          ELSE abspath(eu_path.val, c)
             eu_base == expanduser(base_directory.val)
             abs_base == IF eu_base.exc # "none" THEN eu_base
                         ELSE abspath(eu_base.val, c)
             full_base == IF EndsWith(abs_base.val, <<os_sep>>)
                          THEN abs_base.val
                          ELSE abs_base.val \o <<os_sep>>
         IN  IF full_path.exc = "ValueError"
             THEN Ret(FALSE, <<"type", "resolve">>)
             ELSE IF full_path.exc # "none"
             THEN Raise(full_path.exc, <<"type", "resolve">>)
             ELSE IF abs_base.exc = "ValueError"
             THEN Ret(FALSE, <<"type", "resolve">>)
             ELSE IF abs_base.exc # "none"
             THEN Raise(abs_base.exc, <<"type", "resolve">>)
             ELSE Ret(StartsWith(full_path.val, full_base),
                      <<"type", "resolve", "prefix">>)

\* c is the working directory of the process at the time of the call.  The
\* resolution is os.path.abspath(os.path.expanduser(.)): textual, it never
\* reads a symbolic link.  ValueError and OSError give False.
is_within_directory(path, base_directory, c) ==
    IF ~isinstance_str(path)
    THEN RaiseTypeError("path", path)
    ELSE IF ~isinstance_str(base_directory)
    THEN RaiseTypeError("base_directory", base_directory)
    ELSE LET eu_path == expanduser(path.val)
             full_path == IF eu_path.exc # "none" THEN eu_path
                          ELSE abspath(eu_path.val, c)
             eu_base == expanduser(base_directory.val)
             abs_base == IF eu_base.exc # "none" THEN eu_base
                         ELSE abspath(eu_base.val, c)
             full_base == IF EndsWith(abs_base.val, <<os_sep>>)
                          THEN abs_base.val
                          ELSE abs_base.val \o <<os_sep>>
         IN  IF full_path.exc \in {"ValueError", "OSError"}
             THEN Ret(FALSE, <<"type", "resolve">>)
             ELSE IF abs_base.exc \in {"ValueError", "OSError"}
             THEN Ret(FALSE, <<"type", "resolve">>)
             ELSE Ret(StartsWith(full_path.val, full_base),
                      <<"type", "resolve", "prefix">>)

\* validate_file_path with the traversal stage left out
validate_file_path_no_traversal(path, base_path, c) ==
    IF ~isinstance_str(path)
    THEN RaiseTypeError("path", path)
    ELSE IF ~isinstance_str(base_path)
    THEN RaiseTypeError("base_path", base_path)
    ELSE LET s == path.val IN
         IF Len(s) = 0 \/ str_isspace(s)
         THEN Ret(FALSE, <<"type", "empty">>)
         ELSE IF Len(s) > MAX_FILEPATH_LENGTH
         THEN Ret(FALSE, <<"type", "empty", "length">>)
         ELSE IF \E k \in DOMAIN NULL_BYTE_SEQUENCES :
                    Contains(s, NULL_BYTE_SEQUENCES[k])
         THEN Ret(FALSE, <<"type", "empty", "length", "null">>)
         ELSE Ret(is_within_directory(path, base_path, c).val,
                  <<"type", "empty", "length", "null", "containment">>)

\* validate_file_path with the emptiness check ahead of the type check of
\* base_path
validate_file_path_empty_first(path, base_path, c) ==
    IF ~isinstance_str(path)
    THEN RaiseTypeError("path", path)
    ELSE LET s == path.val IN
         IF Len(s) = 0 \/ str_isspace(s)
         THEN Ret(FALSE, <<"type", "empty">>)
         ELSE IF ~isinstance_str(base_path)
         THEN RaiseTypeError("base_path", base_path)
         ELSE IF Len(s) > MAX_FILEPATH_LENGTH
         THEN Ret(FALSE, <<"type", "empty", "length">>)
         ELSE IF \E k \in DOMAIN NULL_BYTE_SEQUENCES :
                    Contains(s, NULL_BYTE_SEQUENCES[k])
         THEN Ret(FALSE, <<"type", "empty", "length", "null">>)
         ELSE IF contains_path_traversal(path).val
         THEN Ret(FALSE, <<"type", "empty", "length", "null", "traversal">>)
         ELSE Ret(is_within_directory(path, base_path, c).val,
                  <<"type", "empty", "length", "null", "traversal",
                    "containment">>)

\* validate_file_path without the emptiness check
validate_file_path_no_empty(path, base_path, c) ==
    IF ~isinstance_str(path)
    THEN RaiseTypeError("path", path)
    ELSE IF ~isinstance_str(base_path)
    THEN RaiseTypeError("base_path", base_path)
    ELSE LET s == path.val IN
         IF Len(s) > MAX_FILEPATH_LENGTH
         THEN Ret(FALSE, <<"type", "length">>)
         ELSE IF \E k \in DOMAIN NULL_BYTE_SEQUENCES :
                    Contains(s, NULL_BYTE_SEQUENCES[k])
         THEN Ret(FALSE, <<"type", "length", "null">>)
         ELSE IF contains_path_traversal(path).val
         THEN Ret(FALSE, <<"type", "length", "null", "traversal">>)
         ELSE Ret(is_within_directory(path, base_path, c).val,
                  <<"type", "length", "null", "traversal", "containment">>)

\* The last statement is "return is_within_directory(path, base_path)": what
\* that call returns is returned, what it raises reaches the caller.
validate_file_path(path, base_path, c) ==
    IF ~isinstance_str(path)
    THEN RaiseTypeError("path", path)
    ELSE IF ~isinstance_str(base_path)
    THEN RaiseTypeError("base_path", base_path)
    ELSE LET s == path.val
             within == is_within_directory(path, base_path, c)
             stages == <<"type", "empty", "length", "null", "traversal",
                         "containment">>
         IN
         IF Len(s) = 0 \/ str_isspace(s)
         THEN Ret(FALSE, <<"type", "empty">>)
         ELSE IF Len(s) > MAX_FILEPATH_LENGTH
         THEN Ret(FALSE, <<"type", "empty", "length">>)
         ELSE IF \E k \in DOMAIN NULL_BYTE_SEQUENCES :
                    Contains(s, NULL_BYTE_SEQUENCES[k])
         THEN Ret(FALSE, <<"type", "empty", "length", "null">>)
         ELSE IF contains_path_traversal(path).val
         THEN Ret(FALSE, <<"type", "empty", "length", "null", "traversal">>)
         ELSE IF within.kind = "raise"
         THEN Raise(within.exc, stages)
         ELSE Ret(within.val, stages)

\* os.path.splitext(p)[0]: the part before the last dot of the last
\* component, unless only dots precede that dot.
splitext_root(p) ==
    LET seps == {k \in 1..Len(p) : p[k] = os_sep}
        dots == {k \in 1..Len(p) : p[k] = "."}
        sepIndex == IF seps = {} THEN 0
                    ELSE CHOOSE k \in seps : \A j \in seps : j <= k
        dotIndex == IF dots = {} THEN 0
                    ELSE CHOOSE k \in dots : \A j \in dots : j <= k
    IN  IF /\ dotIndex > sepIndex
           /\ \E k \in (sepIndex + 1)..(dotIndex - 1) : p[k] # "."
        THEN SubSeq(p, 1, dotIndex - 1)
        ELSE p

\* validate_filename with the reserved names compared without .upper()
validate_filename_case_sensitive(filename) ==
    IF ~isinstance_str(filename)
    THEN RaiseTypeError("filename", filename)
    ELSE LET s == filename.val IN
         IF Len(s) = 0 \/ str_isspace(s)
         THEN Ret(FALSE, <<"type", "empty">>)
         ELSE IF Len(s) > MAX_FILENAME_LENGTH
         THEN Ret(FALSE, <<"type", "empty", "length">>)
         ELSE IF os_sep \in Range(s)
         THEN Ret(FALSE, <<"type", "empty", "length", "separator">>)
         ELSE IF ~FILENAME_PATTERN(s)
         THEN Ret(FALSE, <<"type", "empty", "length", "separator", "pattern">>)
         ELSE IF splitext_root(s) \in WINDOWS_RESERVED_NAMES
         THEN Ret(FALSE, <<"type", "empty", "length", "separator", "pattern",
                           "reserved">>)
         ELSE Ret(TRUE, <<"type", "empty", "length", "separator", "pattern",
                          "reserved">>)

validate_filename(filename) ==
    IF ~isinstance_str(filename)
    THEN RaiseTypeError("filename", filename)
    ELSE LET s == filename.val IN
         IF Len(s) = 0 \/ str_isspace(s)
         THEN Ret(FALSE, <<"type", "empty">>)
         ELSE IF Len(s) > MAX_FILENAME_LENGTH
         THEN Ret(FALSE, <<"type", "empty", "length">>)
         ELSE IF os_sep \in Range(s)
         THEN Ret(FALSE, <<"type", "empty", "length", "separator">>)
         ELSE IF ~FILENAME_PATTERN(s)
         THEN Ret(FALSE, <<"type", "empty", "length", "separator", "pattern">>)
         ELSE IF str_upper(splitext_root(s)) \in WINDOWS_RESERVED_NAMES
         THEN Ret(FALSE, <<"type", "empty", "length", "separator", "pattern",
                           "reserved">>)
         ELSE Ret(TRUE, <<"type", "empty", "length", "separator", "pattern",
                          "reserved">>)

\* is_safe_filename with a type check of its own that answers false
is_safe_filename_own_check(filename) ==
    IF ~isinstance_str(filename)
    THEN Ret(FALSE, <<"type">>)
    ELSE validate_filename(filename)

is_safe_filename(filename) == validate_filename(filename)


(***************************************************************************)
(* Character sets exported by the module.                                  *)
(***************************************************************************)
ALPHANUMERIC_CHARS == LowerSeq \o UpperSeq \o DigitSeq
ALPHANUMERIC_WITH_SEPARATORS == ALPHANUMERIC_CHARS \o <<"-", "_", ".">>
LOWERCASE_ALPHANUMERIC == LowerSeq \o DigitSeq
NUMERIC_CHARS == DigitSeq
HEX_CHARS_LOWER == DigitSeq \o SubSeq(LowerSeq, 1, 6)

(***************************************************************************)
(* The state: a caller that calls one public function at a time, and the   *)
(* part of the process environment that path resolution depends on.        *)
(***************************************************************************)
VARIABLES
    pc,       \* "idle" or "returned"
    fn,       \* the function called last, "none" when idle
    args,     \* its arguments
    result,   \* its outcome
    cwd,      \* working directory of the process: [ok, dir]
    links,    \* symbolic links of the file system: set of [at, to]
    registry, \* the module-level patterns, limits and character sets
    threads   \* the concurrent callers: thread -> its call in progress

vars == <<pc, fn, args, result, cwd, links, registry, threads>>
env == <<cwd, links>>
shared == <<registry, threads>>

NoResult == Ret(FALSE, <<>>)

\* Argument values that are not text.
None == [type |-> "NoneType", val |-> <<>>]
Int123 == [type |-> "int", val |-> <<>>]
NonText == {None, Int123}

\* All texts of up to n characters over an alphabet.
TextsOver(alphabet, n) == UNION {[1..k -> alphabet] : k \in 0..n}

\* Names: every text of up to MaxLen characters over NameAlphabet, and the
\* texts of the unit tests that need other characters.
NameAlphabet == {"a", "0", "A", ".", "-", "_", "/", "LF"}
ExtraNameTexts ==
    {<<" ">>, <<" ", " ", " ">>, <<"TAB">>, <<" ", "LF">>, <<"NBSP">>,
     <<"a", " ", "a">>, <<"a", "TAB", "a">>, <<"a", ":", "a">>,
     <<"a", "SNOWMAN">>, <<"EACUTE">>, <<"a", ".", ".", "a">>,
     <<"a", ".", "a", "/", "a", "-", "a">>,
     <<"C", "O", "N">>, <<"c", "o", "n">>, <<"C", "O", "N", ".", "a">>,
     <<"L", "p", "t", "1", ".", "a">>, <<"C", "O", "N", "LF">>,
     <<"C", "O", "N", ".", "t", "x", "t">>,
     <<"L", "p", "t", "1", ".", "l", "o", "g">>,
     <<"c", "o", "n", "f", "i", "g", ".", "j", "s", "o", "n">>}
NameTexts == TextsOver(NameAlphabet, MaxLen) \cup ExtraNameTexts

\* Texts of L-1, L and L+1 characters: a head, a run of "a", a tail.
LongHeads == {<<>>, <<"C", "O", "N", ".">>}
LongTails == {<<>>, <<"LF">>, <<"-">>, <<" ">>}
LongTexts(L) ==
    {h \o Rep("a", n - Len(h) - Len(t)) \o t :
        h \in LongHeads, t \in LongTails, n \in {L - 1, L, L + 1}}

NameArgs(L) == {Str(s) : s \in NameTexts \cup LongTexts(L)} \cup NonText

DockerImageNameArgs == NameArgs(MAX_DOCKER_IMAGE_NAME_LENGTH)
DockerTagArgs == NameArgs(MAX_DOCKER_TAG_LENGTH)
FilenameArgs == NameArgs(MAX_FILENAME_LENGTH)
HelmParameterArgs == NameArgs(MAX_HELM_PARAMETER_LENGTH)
HelmValueArgs == NameArgs(MAX_HELM_VALUE_LENGTH)
K8sNamespaceArgs == NameArgs(MAX_K8S_NAMESPACE_LENGTH)
K8sResourceNameArgs == NameArgs(MAX_K8S_RESOURCE_NAME_LENGTH)
IdentifierArgs == NameArgs(MAX_IDENTIFIER_LENGTH)
PlainArgs == {Str(s) : s \in NameTexts} \cup NonText

ShellAlphabet == {"a", "n", "'", "\\", "|", "LF", "TAB", "."}
ShellArgs == {Str(s) : s \in TextsOver(ShellAlphabet, MaxLen)} \cup NonText

\* Paths: concatenations of up to MaxToks tokens, alone or appended to the
\* base directory; the paths of the unit tests that need other characters;
\* and paths around the length limit.
PathTokens ==
    {<<"/">>, <<"b">>, <<"l">>, <<".">>, <<"~">>, <<"\\">>, <<"%", "2", "e">>}

RECURSIVE Concat(_)
Concat(ts) == IF Len(ts) = 0 THEN <<>> ELSE ts[1] \o Concat(Tail(ts))

TokenTexts == {Concat(ts) : ts \in TextsOver(PathTokens, MaxToks)}

ExtraPathTexts ==
    {<<" ">>, <<"TAB", " ">>, <<"b", "NUL">>, <<"~", "NUL">>,
     <<"b", "%", "0", "0">>, <<"b", "\\", "0">>,
     <<"b", "\\", "u", "0", "0", "0", "0">>,
     <<"b", "/", ".", ".", "/", ".", ".", "/", "b">>,
     <<"l", "/", ".", ".", "/", "b">>,
     <<"b", "/", "l", "/", "b">>,
     <<"~", "b", "/", "l">>}

LongPathTexts ==
    {<<"/", "b", "/">> \o Rep("a", n - 3) :
        n \in {MAX_FILEPATH_LENGTH, MAX_FILEPATH_LENGTH + 1}}

BaseTexts ==
    {<<"/">>, <<"/", "/">>, <<"/", "b">>, <<"/", "b", "/">>, <<"~">>, <<>>}
BaseArgs == {Str(b) : b \in BaseTexts} \cup {None}

\* join(base, t), as the callers and the tests build a path under a base
JoinedTexts(base) ==
    {join(base, t) : t \in TokenTexts \cup ExtraPathTexts}

PathArgs ==
    [b \in BaseArgs |->
        {Str(t) : t \in TokenTexts \cup ExtraPathTexts \cup LongPathTexts
                         \cup JoinedTexts(b.val)}
            \cup NonText]

\* Percent-encoded paths: a dot and a slash plain, encoded once, twice and
\* three times, and an escape that is not hexadecimal.
EncodedTokens ==
    {<<".">>, <<"/">>, <<"b">>, <<"%", "2", "e">>, <<"%", "2", "F">>,
     <<"%", "2", "5", "2", "e">>, <<"%", "2", "5", "2", "5", "2", "e">>,
     <<"%", "z", "z">>}
EncodedTexts == {Concat(ts) : ts \in TextsOver(EncodedTokens, MaxToks)}

PlainPathArgs ==
    {Str(t) : t \in TokenTexts \cup ExtraPathTexts \cup LongPathTexts
                     \cup EncodedTexts}
        \cup NonText

AllowedArgs ==
    {Str(ALPHANUMERIC_CHARS), Str(LOWERCASE_ALPHANUMERIC), Str(<<>>),
     Str(<<"'", ".", "a", "a">>), None}

Dirs == {<<"/", "b">>}
LinkCandidates == {[at |-> <<"/", "b", "/", "l">>, to |-> <<"/", "h">>]}

\* The module-level names after import: the source text of each compiled
\* pattern, the length limits, the sets and lists of dangerous sequences and
\* the exported character sets.
Registry ==
    [patterns |->
        [DOCKER_IMAGE_NAME |-> "^[a-z0-9]+([._/-][a-z0-9]+)*$",
         DOCKER_TAG |-> "^[a-zA-Z0-9_.-]{1,128}$",
         FILENAME |-> "^[a-zA-Z0-9_.-]+$",
         HELM_PARAMETER |-> "^[a-zA-Z0-9._-]+$",
         HELM_VALUE |-> "^[a-zA-Z0-9._:/-]+$",
         K8S_NAMESPACE |-> "^[a-z0-9]([a-z0-9-]*[a-z0-9])?$",
         K8S_RESOURCE_NAME |-> "^[a-z0-9]([a-z0-9.-]*[a-z0-9])?$",
         IDENTIFIER |-> "^[a-zA-Z_][a-zA-Z0-9_]*$",
         ALPHANUMERIC_DASH |-> "^[a-zA-Z0-9-]+$",
         PATH_TRAVERSAL |-> "\\.\\.|/\\.|\\\\\\\\."],
     limits |->
        [DOCKER_IMAGE_NAME |-> MAX_DOCKER_IMAGE_NAME_LENGTH,
         DOCKER_TAG |-> MAX_DOCKER_TAG_LENGTH,
         FILENAME |-> MAX_FILENAME_LENGTH,
         FILEPATH |-> MAX_FILEPATH_LENGTH,
         K8S_NAMESPACE |-> MAX_K8S_NAMESPACE_LENGTH,
         K8S_RESOURCE_NAME |-> MAX_K8S_RESOURCE_NAME_LENGTH,
         HELM_PARAMETER |-> MAX_HELM_PARAMETER_LENGTH,
         HELM_VALUE |-> MAX_HELM_VALUE_LENGTH,
         IDENTIFIER |-> MAX_IDENTIFIER_LENGTH],
     shell_metacharacters |-> SHELL_METACHARACTERS,
     path_traversal_sequences |-> PATH_TRAVERSAL_SEQUENCES,
     null_byte_sequences |-> NULL_BYTE_SEQUENCES,
     windows_reserved_names |-> WINDOWS_RESERVED_NAMES,
     charsets |->
        [ALPHANUMERIC_CHARS |-> ALPHANUMERIC_CHARS,
         ALPHANUMERIC_WITH_SEPARATORS |-> ALPHANUMERIC_WITH_SEPARATORS,
         LOWERCASE_ALPHANUMERIC |-> LOWERCASE_ALPHANUMERIC,
         NUMERIC_CHARS |-> NUMERIC_CHARS,
         HEX_CHARS_LOWER |-> HEX_CHARS_LOWER]]

Threads == 1..NumThreads

IdleThread ==
    [pc |-> "idle", fn |-> "none", given |-> <<>>, args |-> <<>>,
     result |-> NoResult, at |-> <<>>, overlapped |-> FALSE]

Init ==
    /\ pc = "idle"
    /\ fn = "none"
    /\ args = <<>>
    /\ result = NoResult
    /\ cwd = [ok |-> TRUE, dir |-> <<"/", "b">>]
    /\ links = {}
    /\ registry = Registry
    /\ threads = [t \in Threads |-> IdleThread]

\* The call of f with arguments a has returned or raised r.
Returned(f, a, r) ==
    /\ pc' = "returned"
    /\ fn' = f
    /\ args' = a
    /\ result' = r
    /\ UNCHANGED env
    /\ UNCHANGED shared

CallValidateDockerImageName ==
    /\ pc = "idle"
    /\ \E x \in DockerImageNameArgs :
        Returned("validate_docker_image_name", <<x>>,
                 validate_docker_image_name(x))

CallValidateDockerTag ==
    /\ pc = "idle"
    /\ \E x \in DockerTagArgs :
        Returned("validate_docker_tag", <<x>>, validate_docker_tag(x))

CallValidateFilePath ==
    /\ pc = "idle"
    /\ \E b \in BaseArgs : \E x \in PathArgs[b] :
        Returned("validate_file_path", <<x, b>>, validate_file_path(x, b, cwd))

CallValidateFilename ==
    /\ pc = "idle"
    /\ \E x \in FilenameArgs :
        Returned("validate_filename", <<x>>, validate_filename(x))

CallIsSafeFilename ==
    /\ pc = "idle"
    /\ \E x \in FilenameArgs :
        Returned("is_safe_filename", <<x>>, is_safe_filename(x))

CallIsWithinDirectory ==
    /\ pc = "idle"
    /\ \E b \in BaseArgs : \E x \in PathArgs[b] :
        Returned("is_within_directory", <<x, b>>,
                 is_within_directory(x, b, cwd))

CallContainsPathTraversal ==
    /\ pc = "idle"
    /\ \E x \in PlainPathArgs :
        Returned("contains_path_traversal", <<x>>, contains_path_traversal(x))

CallValidateHelmParameter ==
    /\ pc = "idle"
    /\ \E x \in HelmParameterArgs :
        Returned("validate_helm_parameter", <<x>>, validate_helm_parameter(x))

CallValidateHelmValue ==
    /\ pc = "idle"
    /\ \E x \in HelmValueArgs :
        Returned("validate_helm_value", <<x>>, validate_helm_value(x))

CallValidateKubernetesNamespace ==
    /\ pc = "idle"
    /\ \E x \in K8sNamespaceArgs :
        Returned("validate_kubernetes_namespace", <<x>>,
                 validate_kubernetes_namespace(x))

CallValidateKubernetesResourceName ==
    /\ pc = "idle"
    /\ \E x \in K8sResourceNameArgs :
        Returned("validate_kubernetes_resource_name", <<x>>,
                 validate_kubernetes_resource_name(x))

CallContainsShellMetacharacters ==
    /\ pc = "idle"
    /\ \E x \in ShellArgs :
        Returned("contains_shell_metacharacters", <<x>>,
                 contains_shell_metacharacters(x))

CallSanitizeShellArgument ==
    /\ pc = "idle"
    /\ \E x \in ShellArgs :
        Returned("sanitize_shell_argument", <<x>>, sanitize_shell_argument(x))

CallValidateIdentifier ==
    /\ pc = "idle"
    /\ \E x \in IdentifierArgs :
        Returned("validate_identifier", <<x>>, validate_identifier(x))

CallIsValidIdentifier ==
    /\ pc = "idle"
    /\ \E x \in IdentifierArgs :
        Returned("is_valid_identifier", <<x>>, is_valid_identifier(x))

CallIsAlphanumeric ==
    /\ pc = "idle"
    /\ \E x \in PlainArgs :
        Returned("is_alphanumeric", <<x>>, is_alphanumeric(x))

CallIsAlphanumericWithDash ==
    /\ pc = "idle"
    /\ \E x \in PlainArgs :
        Returned("is_alphanumeric_with_dash", <<x>>,
                 is_alphanumeric_with_dash(x))

CallSanitizeInput ==
    /\ pc = "idle"
    /\ \E x \in ShellArgs : \E a \in AllowedArgs :
        Returned("sanitize_input", <<x, a>>, sanitize_input(x, a))

\* The caller takes the outcome and is ready for the next call.
Return ==
    /\ pc = "returned"
    /\ pc' = "idle"
    /\ fn' = "none"
    /\ args' = <<>>
    /\ result' = NoResult
    /\ UNCHANGED env
    /\ UNCHANGED shared

\* The environment: the process changes its working directory, the working
\* directory is removed under it, a symbolic link is created.
Chdir ==
    /\ pc = "idle"
    /\ \E d \in Dirs : cwd' = [ok |-> TRUE, dir |-> d]
    /\ UNCHANGED <<pc, fn, args, result, links>>
    /\ UNCHANGED shared

RemoveCwd ==
    /\ pc = "idle"
    /\ cwd.ok
    /\ cwd.dir # <<os_sep>>
    /\ cwd' = [cwd EXCEPT !.ok = FALSE]
    /\ UNCHANGED <<pc, fn, args, result, links>>
    /\ UNCHANGED shared

Symlink ==
    /\ pc = "idle"
    /\ \E l \in LinkCandidates : links' = links \cup {l}
    /\ UNCHANGED <<pc, fn, args, result, cwd>>
    /\ UNCHANGED shared

Next ==
    \/ CallValidateDockerImageName
    \/ CallValidateDockerTag
    \/ CallValidateFilePath
    \/ CallValidateFilename
    \/ CallIsSafeFilename
    \/ CallIsWithinDirectory
    \/ CallContainsPathTraversal
    \/ CallValidateHelmParameter
    \/ CallValidateHelmValue
    \/ CallValidateKubernetesNamespace
    \/ CallValidateKubernetesResourceName
    \/ CallContainsShellMetacharacters
    \/ CallSanitizeShellArgument
    \/ CallValidateIdentifier
    \/ CallIsValidIdentifier
    \/ CallIsAlphanumeric
    \/ CallIsAlphanumericWithDash
    \/ CallSanitizeInput
    \/ Return
    \/ Chdir
    \/ RemoveCwd
    \/ Symlink

Spec == Init /\ [][Next]_vars

(***************************************************************************)
(* Concurrent callers.  Each thread calls public functions one after the   *)
(* other; the calls of different threads overlap.  A call reads the        *)
(* registry and, for the path functions, the working directory; no         *)
(* function of the module assigns to a module-level name or calls a        *)
(* mutating method on a module-level object, and its arguments are         *)
(* immutable str objects.                                                  *)
(***************************************************************************)
\* The call f(*a) with working directory c.
Apply(f, a, c) ==
    CASE f = "validate_docker_image_name" -> validate_docker_image_name(a[1])
      [] f = "validate_docker_tag" -> validate_docker_tag(a[1])
      [] f = "validate_file_path" -> validate_file_path(a[1], a[2], c)
      [] f = "validate_filename" -> validate_filename(a[1])
      [] f = "is_safe_filename" -> is_safe_filename(a[1])
      [] f = "is_within_directory" -> is_within_directory(a[1], a[2], c)
      [] f = "contains_path_traversal" -> contains_path_traversal(a[1])
      [] f = "validate_helm_parameter" -> validate_helm_parameter(a[1])
      [] f = "validate_helm_value" -> validate_helm_value(a[1])
      [] f = "validate_kubernetes_namespace" ->
             validate_kubernetes_namespace(a[1])
      [] f = "validate_kubernetes_resource_name" ->
             validate_kubernetes_resource_name(a[1])
      [] f = "contains_shell_metacharacters" ->
             contains_shell_metacharacters(a[1])
      [] f = "sanitize_shell_argument" -> sanitize_shell_argument(a[1])
      [] f = "validate_identifier" -> validate_identifier(a[1])
      [] f = "is_valid_identifier" -> is_valid_identifier(a[1])
      [] f = "is_alphanumeric" -> is_alphanumeric(a[1])
      [] f = "is_alphanumeric_with_dash" -> is_alphanumeric_with_dash(a[1])
      [] f = "sanitize_input" -> sanitize_input(a[1], a[2])

\* a registry to which contains_shell_metacharacters adds the line feed
RegistryAfter_patched(f, reg) ==
    IF f = "contains_shell_metacharacters"
    THEN [reg EXCEPT !.shell_metacharacters = @ \cup {"LF"}]
    ELSE reg

\* The registry after a call of f: no function body has a global
\* statement, an assignment to a module-level name or a call of a mutating
\* method on a module-level object.
RegistryAfter(f, reg) == reg

\* The argument objects after a call: str is immutable, and the functions
\* bind derived texts (path.lower(), unquote(path)) to local names.
ArgsAfter(f, a) == a

\* The calls the threads make.
ThreadCalls ==
    {[fn |-> "validate_filename", args |-> <<Str(<<"C", "O", "N">>)>>],
     [fn |-> "validate_docker_image_name", args |-> <<Str(<<"a", "-", "0">>)>>],
     [fn |-> "validate_identifier", args |-> <<None>>],
     [fn |-> "contains_shell_metacharacters", args |-> <<Str(<<"a", "LF">>)>>],
     [fn |-> "contains_path_traversal", args |-> <<Str(<<".", ".">>)>>],
     [fn |-> "sanitize_input",
      args |-> <<Str(<<"a", "|", "a">>), Str(LOWERCASE_ALPHANUMERIC)>>],
     [fn |-> "is_within_directory",
      args |-> <<Str(<<"b">>), Str(<<"/", "b">>)>>],
     [fn |-> "validate_file_path", args |-> <<Str(<<"b">>), Str(<<>>)>>]}

\* Thread t enters a call: the arguments are bound to the parameters.
ThreadCall(t) ==
    /\ threads[t].pc = "idle"
    /\ \E c \in ThreadCalls :
        threads' =
            [u \in Threads |->
                IF u = t
                THEN [pc |-> "running", fn |-> c.fn, given |-> c.args,
                      args |-> c.args, result |-> NoResult, at |-> <<>>,
                      overlapped |-> \E v \in Threads \ {t} :
                                        threads[v].pc = "running"]
                ELSE IF threads[u].pc = "running"
                THEN [threads[u] EXCEPT !.overlapped = TRUE]
                ELSE threads[u]]
    /\ UNCHANGED <<pc, fn, args, result, cwd, links, registry>>

\* The body of the call of thread t runs to its return or raise.
ThreadRun(t) ==
    /\ threads[t].pc = "running"
    /\ LET th == threads[t]
       IN  threads' =
               [threads EXCEPT ![t] =
                   [th EXCEPT !.pc = "returned",
                              !.args = ArgsAfter(th.fn, th.args),
                              !.result = Apply(th.fn, th.args, cwd),
                              !.at = cwd]]
    /\ registry' = RegistryAfter(threads[t].fn, registry)
    /\ UNCHANGED <<pc, fn, args, result, cwd, links>>

\* Thread t takes the outcome and is ready for its next call.
ThreadReturn(t) ==
    /\ threads[t].pc = "returned"
    /\ threads' = [threads EXCEPT ![t] = IdleThread]
    /\ UNCHANGED <<pc, fn, args, result, cwd, links, registry>>

NextThreads ==
    \/ \E t \in Threads : ThreadCall(t)
    \/ \E t \in Threads : ThreadRun(t)
    \/ \E t \in Threads : ThreadReturn(t)
    \/ Chdir
    \/ RemoveCwd

SpecThreads == Init /\ [][NextThreads]_vars

(***************************************************************************)
(* Properties.                                                             *)
(***************************************************************************)
Called(f) == pc = "returned" /\ fn = f
AllText == \A i \in DOMAIN args : args[i].type = "str"
ReturnedValue(v) == result.kind = "return" /\ result.val = v

\* s has a component that is exactly ".."
HasDotDotSegment(s) == <<".", ".">> \in Range(SplitSep(s))

\* C1: validate_file_path returns false for every text path that has a ".."
\* segment, whatever the base, and the containment stage is never consulted
\* for such a path: an earlier stage has decided.
C1_DotDotRejected ==
    (Called("validate_file_path") /\ AllText /\ HasDotDotSegment(args[1].val))
        => /\ ReturnedValue(FALSE)
           /\ "containment" \notin Range(result.stages)

\* C1 witness: a path with a ".." segment that is_within_directory alone
\* accepts, and that validate_file_path rejected at the traversal stage.
C1_Witness ==
    /\ Called("validate_file_path")
    /\ AllText
    /\ HasDotDotSegment(args[1].val)
    /\ is_within_directory(args[1], args[2], cwd).val = TRUE
    /\ ReturnedValue(FALSE)
    /\ result.stages[Len(result.stages)] = "traversal"

\* The resolved form of a text: tilde-expanded, absolute, normalised.
Resolved(s) ==
    LET eu == expanduser(s)
    IN  IF eu.exc # "none" THEN eu ELSE abspath(eu.val, cwd)

\* p is base joined with one or more segments, none of them in excluded
IsChild(p, base, excluded) ==
    \E k \in 1..Len(p) :
        LET rel == SubSeq(p, k, Len(p))
        IN  /\ rel[1] # os_sep
            /\ join(base, rel) = p
            /\ \A seg \in Range(SplitSep(rel)) : seg \notin excluded

\* the resolved path lies beside the resolved base: same parent, a name that
\* extends the name of the base
IsSibling(rp, rb) ==
    /\ rb[Len(rb)] # os_sep
    /\ StartsWith(rp, rb)
    /\ Len(rp) > Len(rb)
    /\ rp[Len(rb) + 1] # os_sep

\* The parts of C2 that name cases: a child made by joining one or more
\* segments that are names (not empty, not "." and not "..") to a non-empty
\* base is inside; a sibling whose name extends the name of the base is
\* outside; a path that does not start with the resolved base is outside.
C2_Cases ==
    LET rp == Resolved(args[1].val)
        rb == Resolved(args[2].val)
        both == rp.exc = "none" /\ rb.exc = "none"
    IN  /\ (/\ both
            /\ args[2].val # <<>>
            /\ IsChild(args[1].val, args[2].val, {<<>>, <<".">>, <<".", ".">>}))
               => result.val = TRUE
        /\ (both /\ IsSibling(rp.val, rb.val)) => result.val = FALSE
        /\ (both /\ ~StartsWith(rp.val, rb.val)) => result.val = FALSE

\* C2 as stated: is_within_directory is true exactly when the resolved path
\* has the resolved base followed by a separator as a prefix.
C2_Original ==
    (Called("is_within_directory") /\ AllText) =>
        LET rp == Resolved(args[1].val)
            rb == Resolved(args[2].val)
        IN  /\ result.kind = "return"
            /\ result.val = (/\ rp.exc = "none"
                             /\ rb.exc = "none"
                             /\ StartsWith(rp.val, rb.val \o <<os_sep>>))
            /\ C2_Cases

\* C2 amended: is_within_directory is true exactly when both arguments
\* resolve and the resolved path has as a prefix the resolved base with a
\* separator appended unless the resolved base already ends with one (the
\* root); children are inside, siblings and other directories outside.
C2_Containment ==
    (Called("is_within_directory") /\ AllText) =>
        LET rp == Resolved(args[1].val)
            rb == Resolved(args[2].val)
            rbsep == IF EndsWith(rb.val, <<os_sep>>) THEN rb.val
                     ELSE rb.val \o <<os_sep>>
        IN  /\ result.kind = "return"
            /\ result.val = (/\ rp.exc = "none"
                             /\ rb.exc = "none"
                             /\ StartsWith(rp.val, rbsep))
            /\ C2_Cases

\* C2 witness: a sibling of the base (/bl against /b) found outside.
C2_Witness ==
    /\ Called("is_within_directory")
    /\ AllText
    /\ Resolved(args[1].val).exc = "none"
    /\ Resolved(args[2].val).exc = "none"
    /\ IsSibling(Resolved(args[1].val).val, Resolved(args[2].val).val)
    /\ ReturnedValue(FALSE)

\* rp passes through the symbolic link l: l.at is rp or one of its ancestors
ThroughLink(rp, l) == rp = l.at \/ StartsWith(rp, l.at \o <<os_sep>>)

\* C3: is_within_directory resolves symbolic links before comparing: a path
\* that lies textually under the base but passes through a symbolic link
\* whose target is outside the base is found outside.
C3_SymlinksResolved ==
    (Called("is_within_directory") /\ AllText) =>
        LET rp == Resolved(args[1].val)
            rb == Resolved(args[2].val)
            rbsep == IF EndsWith(rb.val, <<os_sep>>) THEN rb.val
                     ELSE rb.val \o <<os_sep>>
        IN  (/\ rp.exc = "none"
             /\ rb.exc = "none"
             /\ StartsWith(rp.val, rbsep)
             /\ \E l \in links :
                    /\ ThroughLink(rp.val, l)
                    /\ ~StartsWith(l.to \o <<os_sep>>, rbsep))
                => ReturnedValue(FALSE)

\* C4: a call with a non-text value for any argument raises TypeError, and
\* the type check is the only work done; a call whose arguments are all text
\* never raises TypeError.
C4_TypeErrorFirst ==
    pc = "returned" =>
        /\ (result.kind = "raise" /\ result.exc = "TypeError") <=> ~AllText
        /\ (result.kind = "raise" /\ result.exc = "TypeError") =>
              result.stages = <<"type">>
        /\ result.kind = "return" => result.exc = "none"

\* C4 witness: validate_file_path("", None) raised TypeError.
C4_Witness ==
    /\ Called("validate_file_path")
    /\ args = <<Str(<<>>), None>>
    /\ result.kind = "raise"
    /\ result.exc = "TypeError"
    /\ result.param = "base_path"

\* The validators of C5.
Validators ==
    {"validate_docker_image_name", "validate_docker_tag", "validate_filename",
     "validate_helm_parameter", "validate_helm_value",
     "validate_kubernetes_namespace", "validate_kubernetes_resource_name",
     "validate_identifier", "validate_file_path", "is_alphanumeric",
     "is_alphanumeric_with_dash"}

\* s is made only of whitespace characters
WhitespaceOnly(s) ==
    /\ Len(s) > 0
    /\ \A i \in 1..Len(s) :
          s[i] \in {" ", "TAB", "LF", "CR", "VT", "FF", "NBSP"}

\* C5: every validator returns false, and does not raise, for the empty
\* text and for every text made only of whitespace.
C5_EmptyAndWhitespaceRejected ==
    (/\ pc = "returned"
     /\ fn \in Validators
     /\ AllText
     /\ (args[1].val = <<>> \/ WhitespaceOnly(args[1].val)))
        => ReturnedValue(FALSE)

\* C5 witness: validate_file_path rejected a whitespace-only path that lies
\* inside the base.
C5_Witness ==
    /\ Called("validate_file_path")
    /\ AllText
    /\ WhitespaceOnly(args[1].val)
    /\ is_within_directory(args[1], args[2], cwd).val = TRUE
    /\ ReturnedValue(FALSE)

\* The maximum length of each kind, by validator.
MaxLength ==
    [f \in {"validate_docker_image_name", "validate_docker_tag",
            "validate_filename", "validate_helm_parameter",
            "validate_helm_value", "validate_kubernetes_namespace",
            "validate_kubernetes_resource_name", "validate_identifier",
            "validate_file_path"} |->
        CASE f = "validate_docker_image_name" -> MAX_DOCKER_IMAGE_NAME_LENGTH
          [] f = "validate_docker_tag" -> MAX_DOCKER_TAG_LENGTH
          [] f = "validate_filename" -> MAX_FILENAME_LENGTH
          [] f = "validate_helm_parameter" -> MAX_HELM_PARAMETER_LENGTH
          [] f = "validate_helm_value" -> MAX_HELM_VALUE_LENGTH
          [] f = "validate_kubernetes_namespace" -> MAX_K8S_NAMESPACE_LENGTH
          [] f = "validate_kubernetes_resource_name" ->
                 MAX_K8S_RESOURCE_NAME_LENGTH
          [] f = "validate_identifier" -> MAX_IDENTIFIER_LENGTH
          [] f = "validate_file_path" -> MAX_FILEPATH_LENGTH]

\* C6: each domain validator returns false for every text longer than the
\* maximum of its kind, whatever its characters.
C6_TooLongRejected ==
    (/\ pc = "returned"
     /\ fn \in DOMAIN MaxLength
     /\ AllText
     /\ Len(args[1].val) > MaxLength[fn])
        => ReturnedValue(FALSE)

\* The pattern contract of each kind, as the specification's table states it.
Alnum == Lower \cup Upper \cup Digit
LowerAlnum == Lower \cup Digit

\* the runs of s between the characters of seps
RECURSIVE Runs(_, _)
Runs(s, seps) ==
    IF \A i \in 1..Len(s) : s[i] \notin seps THEN <<s>>
    ELSE LET k == CHOOSE k \in 1..Len(s) :
                     s[k] \in seps /\ \A j \in 1..(k - 1) : s[j] \notin seps
         IN  <<SubSeq(s, 1, k - 1)>> \o Runs(SubSeq(s, k + 1, Len(s)), seps)

\* one or more non-empty runs of lowercase letters and digits joined by
\* single separators
JoinedLowerRuns(s) ==
    \A r \in Range(Runs(s, {".", "_", "-", "/"})) :
        Len(r) > 0 /\ AllIn(r, LowerAlnum)

\* first and last character lowercase alphanumeric, all characters in class
EdgedName(s, class) ==
    /\ Len(s) > 0
    /\ s[1] \in LowerAlnum
    /\ s[Len(s)] \in LowerAlnum
    /\ AllIn(s, class)

AllowedClass ==
    [f \in DOMAIN MaxLength \ {"validate_file_path"} |->
        CASE f = "validate_docker_image_name" ->
                 LowerAlnum \cup {".", "_", "-", "/"}
          [] f \in {"validate_docker_tag", "validate_filename",
                    "validate_helm_parameter"} -> Alnum \cup {"_", ".", "-"}
          [] f = "validate_helm_value" -> Alnum \cup {"_", ".", "-", ":", "/"}
          [] f = "validate_kubernetes_namespace" -> LowerAlnum \cup {"-"}
          [] f = "validate_kubernetes_resource_name" ->
                 LowerAlnum \cup {"-", "."}
          [] f = "validate_identifier" -> Alnum \cup {"_"}]

SatisfiesPattern(f, s) ==
    /\ Len(s) > 0
    /\ AllIn(s, AllowedClass[f])
    /\ f = "validate_docker_image_name" => JoinedLowerRuns(s)
    /\ f \in {"validate_kubernetes_namespace",
              "validate_kubernetes_resource_name"} =>
           EdgedName(s, AllowedClass[f])
    /\ f = "validate_identifier" => s[1] \notin Digit

\* the part of a filename before its extension is a reserved device name
ReservedBaseName(s) ==
    \E k \in 1..Len(s) :
        /\ str_upper(SubSeq(s, 1, k)) \in WINDOWS_RESERVED_NAMES
        /\ (k = Len(s) \/ (s[k + 1] = "." /\ \A j \in (k + 2)..Len(s) : s[j] # "."))

\* C7 as stated: a text of exactly the maximum length that satisfies the
\* pattern of its kind is accepted.
C7_Original ==
    (/\ pc = "returned"
     /\ fn \in DOMAIN AllowedClass
     /\ AllText
     /\ Len(args[1].val) = MaxLength[fn]
     /\ SatisfiesPattern(fn, args[1].val))
        => ReturnedValue(TRUE)

\* C7 amended: a text of exactly the maximum length that satisfies the
\* pattern of its kind is accepted, provided, for a filename, that its base
\* name before the extension is not a reserved device name.
C7_MaxLengthAccepted ==
    (/\ pc = "returned"
     /\ fn \in DOMAIN AllowedClass
     /\ AllText
     /\ Len(args[1].val) = MaxLength[fn]
     /\ SatisfiesPattern(fn, args[1].val)
     /\ fn = "validate_filename" => ~ReservedBaseName(args[1].val))
        => ReturnedValue(TRUE)

\* C7 witness: a Helm value of exactly 1024 characters was accepted.
C7_Witness ==
    /\ Called("validate_helm_value")
    /\ Len(args[1].val) = MAX_HELM_VALUE_LENGTH
    /\ SatisfiesPattern(fn, args[1].val)
    /\ ReturnedValue(TRUE)

\* C8: whenever a domain validator returns true, every character of the
\* input is in the allowed class of the kind.
C8_AllowList ==
    (/\ pc = "returned"
     /\ fn \in DOMAIN AllowedClass
     /\ AllText
     /\ ReturnedValue(TRUE))
        => AllIn(args[1].val, AllowedClass[fn])

\* C9: for a non-empty text of at most 255 characters,
\* validate_docker_image_name is true exactly when the text is one or more
\* non-empty runs of lowercase letters and digits joined by single
\* separators.
C9_DockerImageNameShape ==
    (/\ Called("validate_docker_image_name")
     /\ AllText
     /\ Len(args[1].val) > 0
     /\ Len(args[1].val) <= 255)
        => /\ result.kind = "return"
           /\ result.val = JoinedLowerRuns(args[1].val)

\* C10: the Kubernetes validators reject every name that starts or ends
\* with "-" (namespace) or with "-" or "." (resource name), and accept every
\* name within the length bound whose first and last characters are
\* lowercase alphanumeric and whose characters are all in the class.
C10_KubernetesNames ==
    /\ (Called("validate_kubernetes_namespace") /\ AllText) =>
          LET s == args[1].val
          IN  /\ (Len(s) > 0 /\ (s[1] = "-" \/ s[Len(s)] = "-"))
                     => ReturnedValue(FALSE)
              /\ (EdgedName(s, LowerAlnum \cup {"-"}) /\ Len(s) <= 63)
                     => ReturnedValue(TRUE)
    /\ (Called("validate_kubernetes_resource_name") /\ AllText) =>
          LET s == args[1].val
          IN  /\ (Len(s) > 0 /\ (s[1] \in {"-", "."} \/ s[Len(s)] \in {"-", "."}))
                     => ReturnedValue(FALSE)
              /\ (EdgedName(s, LowerAlnum \cup {"-", "."}) /\ Len(s) <= 253)
                     => ReturnedValue(TRUE)

\* C10 witness: a namespace that ends with "-" after a valid start was
\* rejected.
C10_Witness ==
    /\ Called("validate_kubernetes_namespace")
    /\ AllText
    /\ Len(args[1].val) > 1
    /\ args[1].val[1] \in LowerAlnum
    /\ args[1].val[Len(args[1].val)] = "-"
    /\ ReturnedValue(FALSE)

\* C11: validate_filename returns false for every filename that contains
\* the path separator and for every filename whose base name before the
\* extension is, in any letter case, a reserved device name; it returns
\* true for a name of 1 to 255 allowed characters whose base name is not
\* reserved.
C11_Filename ==
    (Called("validate_filename") /\ AllText) =>
        LET s == args[1].val
        IN  /\ "/" \in Range(s) => ReturnedValue(FALSE)
            /\ ReservedBaseName(s) => ReturnedValue(FALSE)
            /\ (/\ Len(s) >= 1
                /\ Len(s) <= 255
                /\ AllIn(s, Alnum \cup {"_", ".", "-"})
                /\ ~ReservedBaseName(s)) => ReturnedValue(TRUE)

\* C11 witness: "Lpt1.log", a reserved name in mixed case with an
\* extension, passed the pattern and was rejected by the reserved-name
\* check.
C11_Witness ==
    /\ Called("validate_filename")
    /\ args[1] = Str(<<"L", "p", "t", "1", ".", "l", "o", "g">>)
    /\ result.stages[Len(result.stages)] = "reserved"
    /\ ReturnedValue(FALSE)

\* The metacharacters that the specification and the docstring list.
ListedMetacharacters ==
    {"|", "&", ";", "<", ">", "(", ")", "$", "BACKTICK", "\\", "\"", "'",
     "LF", "CR", "TAB", "*", "?", "[", "]", "{", "}", "!", "#", "~"}

\* C12: contains_shell_metacharacters returns true exactly when some
\* character of the text is one of the listed metacharacters: true for a
\* text with a line feed, carriage return or tab, false for a text of
\* letters, digits, "-", "_" and "." only.
C12_ShellMetacharacters ==
    (Called("contains_shell_metacharacters") /\ AllText) =>
        /\ result.kind = "return"
        /\ result.val = (\E i \in 1..Len(args[1].val) :
                            args[1].val[i] \in ListedMetacharacters)

\* The quoted form of a text: each single quote replaced by the four
\* characters quote, backslash, quote, quote, the whole wrapped in single
\* quotes.
RECURSIVE EscapeQuotes(_)
EscapeQuotes(s) ==
    IF Len(s) = 0 THEN <<>>
    ELSE (IF s[1] = "'" THEN <<"'", "\\", "'", "'">> ELSE <<s[1]>>)
             \o EscapeQuotes(Tail(s))

QuotedForm(a) == <<"'">> \o EscapeQuotes(a) \o <<"'">>

\* Quote removal of a shell word by the POSIX rules: inside single quotes
\* every character is literal up to the closing quote; outside, a backslash
\* makes the next character literal.  A word whose quoting is left open has
\* no value.
RECURSIVE PosixUnquote(_, _)
PosixUnquote(w, quoted) ==
    IF Len(w) = 0 THEN (IF quoted THEN <<"OPEN">> ELSE <<>>)
    ELSE IF quoted
    THEN IF w[1] = "'" THEN PosixUnquote(Tail(w), FALSE)
         ELSE <<w[1]>> \o PosixUnquote(Tail(w), TRUE)
    ELSE IF w[1] = "'" THEN PosixUnquote(Tail(w), TRUE)
    ELSE IF w[1] = "\\" /\ Len(w) >= 2
    THEN <<w[2]>> \o PosixUnquote(Tail(Tail(w)), FALSE)
    ELSE <<w[1]>> \o PosixUnquote(Tail(w), FALSE)

\* w without its escape patterns (quote, backslash, quote, quote), read
\* from the left
RECURSIVE WithoutEscapes(_)
WithoutEscapes(w) ==
    IF Len(w) = 0 THEN <<>>
    ELSE IF StartsWith(w, <<"'", "\\", "'", "'">>)
    THEN WithoutEscapes(SubSeq(w, 5, Len(w)))
    ELSE <<w[1]>> \o WithoutEscapes(Tail(w))

\* C13: for every text a, sanitize_shell_argument(a) returns the
\* two-character '' when a is empty and otherwise the quoted form of a;
\* quote removal by the POSIX rules gives back a, and the result has no
\* single quote other than the two that wrap it and those of the escape
\* pattern.
C13_RoundTripQuoting ==
    (Called("sanitize_shell_argument") /\ AllText) =>
        LET a == args[1].val
            w == result.val
        IN  /\ result.kind = "return"
            /\ w = (IF Len(a) = 0 THEN <<"'", "'">> ELSE QuotedForm(a))
            /\ PosixUnquote(w, FALSE) = a
            /\ "'" \notin Range(WithoutEscapes(SubSeq(w, 2, Len(w) - 1)))

\* The positions of s whose character occurs in allowed, and the k-th of
\* them from the left.
AllowedPositions(s, allowed) ==
    {i \in 1..Len(s) : \E j \in 1..Len(allowed) : s[i] = allowed[j]}
KthPosition(pos, k) ==
    CHOOSE i \in pos : Cardinality({j \in pos : j <= i}) = k

\* C14: sanitize_input(s, allowed) returns the characters of s that occur
\* in allowed, in their order and with their multiplicity: it is s itself
\* when every character is allowed and the empty text, without an error,
\* when none is.
C14_SanitizeSubsequence ==
    (Called("sanitize_input") /\ AllText) =>
        LET s == args[1].val
            allowed == args[2].val
            pos == AllowedPositions(s, allowed)
            r == result.val
        IN  /\ result.kind = "return"
            /\ Len(r) = Cardinality(pos)
            /\ \A k \in 1..Len(r) : r[k] = s[KthPosition(pos, k)]
            /\ \A k \in 1..Len(r) : \E j \in 1..Len(allowed) : r[k] = allowed[j]
            /\ pos = 1..Len(s) => r = s
            /\ pos = {} => r = <<>>

\* C14 witness: a text with a repeated allowed character and a character
\* that is not allowed was filtered; the repetition was kept.
C14_Witness ==
    /\ Called("sanitize_input")
    /\ AllText
    /\ Len(args[1].val) = 3
    /\ Len(result.val) = 2
    /\ result.val[1] = result.val[2]

\* C15: sanitizing a sanitized text with the same allowed characters
\* changes nothing.
C15_SanitizeIdempotent ==
    (Called("sanitize_input") /\ AllText /\ result.kind = "return") =>
        sanitize_input(Str(result.val), args[2]) = result

\* C15 witness: a text that lost two characters was sanitized, so the
\* second pass runs on a text other than the input.
C15_Witness ==
    /\ Called("sanitize_input")
    /\ AllText
    /\ result.kind = "return"
    /\ Len(args[1].val) = Len(result.val) + 2
    /\ sanitize_input(Str(result.val), args[2]).val = result.val

\* The sequences that mark a traversal: "..", "/.", dot-backslash,
\* backslash-dot, and the encoded forms.
ListedTraversals ==
    {<<".", ".">>, <<"/", ".">>, <<".", "\\">>, <<"\\", ".">>,
     <<"%", "2", "e", "%", "2", "e">>,
     <<"%", "2", "5", "2", "e", "%", "2", "5", "2", "e">>,
     <<".", ".", "%", "2", "f">>, <<".", ".", "%", "5", "c">>}

\* C16: contains_path_traversal returns true for every path that contains,
\* compared without case, one of the listed sequences.
C16_TraversalSequences ==
    (/\ Called("contains_path_traversal")
     /\ AllText
     /\ \E t \in ListedTraversals : Contains(str_lower(args[1].val), t))
        => ReturnedValue(TRUE)

\* The encodings of a null byte: the character itself, backslash-zero,
\* %00 and backslash-u0000.
NullByteEncodings ==
    {<<"NUL">>, <<"\\", "0">>, <<"%", "0", "0">>,
     <<"\\", "u", "0", "0", "0", "0">>}

\* C17: validate_file_path returns false for every path that contains an
\* encoding of the null byte at any position, also when the path is
\* otherwise inside the base and free of traversal sequences.
C17_NullByteRejected ==
    (/\ Called("validate_file_path")
     /\ AllText
     /\ \E t \in NullByteEncodings : Contains(args[1].val, t))
        => ReturnedValue(FALSE)

\* C18: for every argument, text or not, is_safe_filename has the outcome
\* of validate_filename and is_valid_identifier has the outcome of
\* validate_identifier: the same value or the same error.
C18_Aliases ==
    /\ Called("is_safe_filename") => result = validate_filename(args[1])
    /\ Called("validate_filename") => result = is_safe_filename(args[1])
    /\ Called("is_valid_identifier") => result = validate_identifier(args[1])
    /\ Called("validate_identifier") => result = is_valid_identifier(args[1])

\* C18 witness: is_safe_filename raised TypeError for an argument that is
\* not text, naming the parameter of validate_filename.
C18_Witness ==
    /\ Called("is_safe_filename")
    /\ ~AllText
    /\ result.kind = "raise"
    /\ result.exc = "TypeError"
    /\ result.param = "filename"

\* C20: with text arguments is_within_directory always returns, and
\* returns false when the resolution of the path or of the base fails;
\* validate_file_path with text arguments always returns a boolean.
C20_NoExceptionEscapes ==
    /\ (Called("is_within_directory") /\ AllText) =>
          /\ result.kind = "return"
          /\ result.val \in BOOLEAN
          /\ (\/ Resolved(args[1].val).exc # "none"
              \/ Resolved(args[2].val).exc # "none") => result.val = FALSE
    /\ (Called("validate_file_path") /\ AllText) =>
          /\ result.kind = "return"
          /\ result.val \in BOOLEAN

\* C20 witness: the working directory was gone when a path inside the base
\* was checked against an absolute base; resolving the path failed with
\* OSError and is_within_directory returned false.
C20_Witness ==
    /\ Called("is_within_directory")
    /\ AllText
    /\ ~cwd.ok
    /\ Resolved(args[1].val).exc = "OSError"
    /\ Resolved(args[2].val).exc = "none"
    /\ result.stages = <<"type", "resolve">>
    /\ ReturnedValue(FALSE)

C21_DecodeOnce ==
    (Called("contains_path_traversal") /\ AllText) =>
        LET s == args[1].val
            d1 == unquote(s)
            d2 == unquote(d1)
            d3 == unquote(d2)
        IN  /\ (/\ d1 # s
                /\ \/ Contains(d1, <<".", ".">>)
                   \/ Contains(d1, <<"/", ".">>)) => ReturnedValue(TRUE)
            /\ (/\ \A t \in ListedTraversals : ~Contains(str_lower(s), t)
                /\ ~PATH_TRAVERSAL_PATTERN(s)
                /\ ~PATH_TRAVERSAL_PATTERN(d1)
                /\ \/ PATH_TRAVERSAL_PATTERN(d2)
                   \/ PATH_TRAVERSAL_PATTERN(d3)) => ReturnedValue(FALSE)
            /\ (/\ ReturnedValue(TRUE)
                /\ result.stages[Len(result.stages)] = "decode")
                   => (d1 # s /\ PATH_TRAVERSAL_PATTERN(d1))

\* C21 witness: a path without a listed sequence whose second decoding,
\* and not its first, shows "..", was not reported.
C21_Witness ==
    /\ Called("contains_path_traversal")
    /\ AllText
    /\ \A t \in ListedTraversals : ~Contains(str_lower(args[1].val), t)
    /\ unquote(args[1].val) # args[1].val
    /\ ~PATH_TRAVERSAL_PATTERN(unquote(args[1].val))
    /\ Contains(unquote(unquote(args[1].val)), <<".", ".">>)
    /\ ReturnedValue(FALSE)

\* C22 as stated: every filename that validate_filename accepts is free of
\* traversal sequences, contains_path_traversal is false for it, and no
\* accepted name contains "..".
C22_Original ==
    (Called("validate_filename") /\ AllText /\ ReturnedValue(TRUE)) =>
        /\ contains_path_traversal(args[1]).val = FALSE
        /\ ~Contains(args[1].val, <<".", ".">>)

\* C22 amended: a filename that validate_filename accepts has no "/", no
\* backslash and no "%", and contains_path_traversal reports it exactly
\* when it contains "..", which validate_filename does accept.
C22_AcceptedFilenames ==
    (Called("validate_filename") /\ AllText /\ ReturnedValue(TRUE)) =>
        /\ \A i \in 1..Len(args[1].val) : args[1].val[i] \notin {"/", "\\", "%"}
        /\ contains_path_traversal(args[1]).val
               = Contains(args[1].val, <<".", ".">>)

\* C22 witness: a name with ".." between two letters was accepted, and
\* contains_path_traversal reports it.
C22_Witness ==
    /\ Called("validate_filename")
    /\ args[1] = Str(<<"a", ".", ".", "a">>)
    /\ ReturnedValue(TRUE)
    /\ contains_path_traversal(args[1]).val = TRUE

\* C23: the base directory is not inside itself.  When the path resolves
\* to the directory the base resolves to, and that directory is not the
\* root, is_within_directory returns false, whatever trailing separators
\* the two arguments have: only strict descendants are accepted.
C23_BaseNotInsideItself ==
    (Called("is_within_directory") /\ AllText) =>
        LET rp == Resolved(args[1].val)
            rb == Resolved(args[2].val)
        IN  (/\ rp.exc = "none"
             /\ rb.exc = "none"
             /\ rp.val = rb.val
             /\ rb.val \notin {<<"/">>, <<"/", "/">>}) => ReturnedValue(FALSE)

\* C23 witness: the base with a trailing separator was checked against the
\* base without one, both resolved to the same directory, and the answer
\* was false.
C23_Witness ==
    /\ Called("is_within_directory")
    /\ args = <<Str(<<"/", "b", "/">>), Str(<<"/", "b">>)>>
    /\ Resolved(args[1].val) = Resolved(args[2].val)
    /\ result.stages = <<"type", "resolve", "prefix">>
    /\ ReturnedValue(FALSE)

====
